---------------------------- MODULE Spec2Model ----------------------------
(***************************************************************************)
(* wav-marker: one conversion of a RIFF/WAVE file plus an Audacity label   *)
(* file into a new WAVE file carrying a fresh 'cue ' chunk and a           *)
(* LIST/adtl chunk (src/wav-marker.c).                                     *)
(*                                                                         *)
(* Files are sequences of bytes (naturals below 256; text is ASCII).  A    *)
(* stream is a record [bytes, pos, eof]: the content, the C library's file *)
(* position (0-based, may lie beyond the end after fseek) and its          *)
(* end-of-file indicator.                                                  *)
(***************************************************************************)
EXTENDS Integers, Sequences, FiniteSets, TLC

VARIABLES
    inputFile,              \* FILE *inputFile : [bytes, pos, eof]
    labelFile,              \* FILE *labelFile : [bytes, pos, eof]
    outputFile,             \* bytes written to FILE *outputFile so far
    waveHeader,             \* WaveHeader as its 12 bytes
    formatChunk,            \* FormatChunk as its 24 bytes, <<>> while NULL
    formatChunkExtraBytes,  \* ChunkLocation [startOffset, size]
    dataChunkLocation,      \* ChunkLocation [startOffset, size]
    otherChunkLocations,    \* the first otherChunksCount entries of the array
    labelInfo,              \* LabelInfo [locations, labels, labelLengths, count]
    cueChunk,               \* CueChunk [chunkID, chunkDataSize, cuePointsCount, cuePoints]
    listChunk,              \* ListChunk [chunkID, chunkDataSize, typeID, labelChunks]
    listChunkSize,          \* size_t listChunkSize
    otherIdx,               \* loop index i of the last loop of writeOutputFile
    returnCode,             \* int returnCode
    pc,                     \* the step addLabelsToWaveFile is at
    chunkStarts,            \* history: output offset at which each chunk was begun
    copied,                 \* history: the ChunkLocations handed to the copier
    run,                    \* 1: the conversion; 2: the conversion of its own output
    firstRun,               \* history: input and result of run 1, kept for run 2
    labelSource,            \* history: the records the label file was written from
    openStreams,            \* the FILE pointers fopen returned, not yet closed
    allocated               \* per pointer, blocks malloc returned, not yet freed

vars == <<inputFile, labelFile, outputFile, waveHeader, formatChunk,
          formatChunkExtraBytes, dataChunkLocation, otherChunkLocations,
          labelInfo, cueChunk, listChunk, listChunkSize, otherIdx, returnCode,
          pc, chunkStarts, copied, run, firstRun, labelSource, openStreams,
          allocated>>

---------------------------------------------------------------------------
(* Bounds of the explored inputs. *)

\* longest label file made of arbitrary bytes
MaxBytes == 5
\* longest sequence of chunks in a generated input file
MaxChunks == 3
\* most bytes missing from the end of a generated input file
MaxCut == 2
\* most records in a generated label file
MaxRecords == 2

---------------------------------------------------------------------------
(* Program constants. *)

WAVE_FORMAT_PCM == 1
WAVE_FORMAT_IEEE_FLOAT == 3
maxOtherChunks == 256
SizeofFormatChunk == 24
SizeofCuePoint == 24
CopyBufferSize == 1024
MaxStartTime == 48660
MaxLabels == 500
LabelSize == 500
SizeofSizeT == 8

RIFF == <<82, 73, 70, 70>>
WAVE == <<87, 65, 86, 69>>
FMT_ == <<102, 109, 116, 32>>
DATA == <<100, 97, 116, 97>>
CUE_ == <<99, 117, 101, 32>>
LIST == <<76, 73, 83, 84>>
ADTL == <<97, 100, 116, 108>>
LABL == <<108, 97, 98, 108>>

---------------------------------------------------------------------------
(* Little-endian conversions. *)

littleEndianBytesToUInt32(b) ==
    b[1] + 256 * b[2] + 65536 * b[3] + 16777216 * b[4]

littleEndianBytesToUInt16(b) == b[1] + 256 * b[2]

uint32ToLittleEndianBytes(v) ==
    << v % 256, (v \div 256) % 256, (v \div 65536) % 256,
       (v \div 16777216) % 256 >>

---------------------------------------------------------------------------
(* Sequences of bytes. *)

\* the sequences of ss one after the other, joined half by half
RECURSIVE Concat(_)
Concat(ss) ==
    IF ss = <<>> THEN <<>>
    ELSE IF Len(ss) = 1 THEN ss[1]
    ELSE Concat(SubSeq(ss, 1, Len(ss) \div 2))
         \o Concat(SubSeq(ss, (Len(ss) \div 2) + 1, Len(ss)))

Fill(n, b) == [i \in 1..n |-> b]

\* the bytes of a file in the 0-based range [start, start + n), as far as
\* the file has them
Slice(bytes, start, n) ==
    IF start >= Len(bytes) \/ n <= 0 THEN <<>>
    ELSE SubSeq(bytes, start + 1,
                IF n > Len(bytes) - start THEN Len(bytes) ELSE start + n)

Min(a, b) == IF a <= b THEN a ELSE b


---------------------------------------------------------------------------
(* The C library's streams.  Positions beyond MaxOffset are not told      *)
(* apart: every position past the end of a file reads alike.              *)

MaxOffset == 1000000000

EOF == -1

Stream(bytes) == [bytes |-> bytes, pos |-> 0, eof |-> FALSE]

\* fread of n bytes: the bytes obtained and the stream afterwards; a short
\* read sets the end-of-file indicator
Fread(f, n) ==
    LET got == Slice(f.bytes, f.pos, n)
    IN  [data |-> got,
         f    |-> [f EXCEPT !.pos = f.pos + Len(got),
                            !.eof = f.eof \/ Len(got) < n]]

\* what a buffer of n bytes holds after a read that obtained `got`: the
\* bytes read, then whatever the buffer held before
Buffer(got, n, before) == got \o Fill(n - Len(got), before)

\* fseek(f, off, SEEK_CUR) and fseek(f, off, SEEK_SET): both clear the
\* end-of-file indicator
FseekCur(f, off) ==
    [f EXCEPT !.pos = IF off > MaxOffset - f.pos THEN MaxOffset ELSE f.pos + off,
              !.eof = FALSE]

FseekSet(f, off) == [f EXCEPT !.pos = off, !.eof = FALSE]

Fgetc(f) ==
    IF f.pos < Len(f.bytes)
    THEN [c |-> f.bytes[f.pos + 1], f |-> [f EXCEPT !.pos = f.pos + 1]]
    ELSE [c |-> EOF, f |-> [f EXCEPT !.eof = TRUE]]

\* ungetc of the character just read
Ungetc(f) == [f EXCEPT !.pos = f.pos - 1, !.eof = FALSE]

---------------------------------------------------------------------------
(* fscanf(labelFile, "%f%*f%*c%[^\r\n]%*c", &startTime, &labelString).    *)
(* Label files here hold digits, '.', TAB, CR, LF and lower-case letters   *)
(* other than e, i and n, so a number is digits with at most one '.'; the  *)
(* times used are exact in binary floating point.                          *)

CR == 13
LF == 10

Spaces == {9, 10, 11, 12, 13, 32}
Digits == 48..57
NotEol == (0..255) \ {CR, LF}

\* the first position from lo up to hi (0-based) whose byte is not in
\* Keep, and hi if there is none
RECURSIVE FirstOutside(_, _, _, _)
FirstOutside(bytes, lo, hi, Keep) ==
    IF lo >= hi THEN hi
    ELSE IF hi - lo = 1 THEN (IF bytes[lo + 1] \in Keep THEN hi ELSE lo)
    ELSE LET mid  == (lo + hi) \div 2
             left == FirstOutside(bytes, lo, mid, Keep)
         IN  IF left < mid THEN left ELSE FirstOutside(bytes, mid, hi, Keep)

\* the first position at or after p (0-based) whose byte is not in Keep
Span(bytes, p, Keep) ==
    IF p >= Len(bytes) THEN p ELSE FirstOutside(bytes, p, Len(bytes), Keep)

RECURSIVE DigitsValue(_)
DigitsValue(ds) ==
    IF ds = <<>> THEN 0
    ELSE 10 * DigitsValue(SubSeq(ds, 1, Len(ds) - 1)) + (ds[Len(ds)] - 48)

RECURSIVE Pow10(_)
Pow10(k) == IF k = 0 THEN 1 ELSE 10 * Pow10(k - 1)

\* one %f or %*f directive at position p: leading white space is skipped,
\* then the longest prefix of a number is consumed.  status is "eof" (input
\* failure), "fail" (matching failure) or "ok"; the value is num / den
ScanFloat(bytes, p) ==
    LET s  == Span(bytes, p, Spaces)
        d1 == Span(bytes, s, Digits)
        dot == d1 < Len(bytes) /\ bytes[d1 + 1] = 46
        d2 == IF dot THEN Span(bytes, d1 + 1, Digits) ELSE d1
        intDigits  == SubSeq(bytes, s + 1, d1)
        fracDigits == IF dot THEN SubSeq(bytes, d1 + 2, d2) ELSE <<>>
    IN  [status |-> IF s >= Len(bytes) THEN "eof"
                    ELSE IF Len(intDigits) + Len(fracDigits) = 0 THEN "fail"
                    ELSE "ok",
         pos    |-> d2,
         hitEnd |-> d2 >= Len(bytes),
         num    |-> DigitsValue(intDigits \o fracDigits),
         den    |-> Pow10(Len(fracDigits))]

\* the call ends early: ret is fscanf's return value, f the stream afterwards
ScanStop(f, ret, pos, eof) ==
    [ret |-> ret, f |-> [f EXCEPT !.pos = pos, !.eof = f.eof \/ eof],
     num |-> 0, den |-> 1, labelString |-> <<>>]

\* %[^\r\n] from position p3 to position e4, then %*c
ScanLabel(f, a1, p3, e4) ==
    IF p3 >= Len(f.bytes) THEN ScanStop(f, 1, Len(f.bytes), TRUE)
    ELSE IF e4 = p3 THEN ScanStop(f, 1, p3, FALSE)
    ELSE [ret |-> 2,
          f   |-> [f EXCEPT !.pos = IF e4 >= Len(f.bytes) THEN e4 ELSE e4 + 1,
                            !.eof = f.eof \/ e4 >= Len(f.bytes)],
          num |-> a1.num, den |-> a1.den,
          labelString |-> SubSeq(f.bytes, p3 + 1, e4)]

\* %*f with result a2, then %*c
ScanSecond(f, a1, a2) ==
    IF a2.status = "eof" THEN ScanStop(f, 1, Len(f.bytes), TRUE)
    ELSE IF a2.status = "fail" THEN ScanStop(f, 1, a2.pos, a2.hitEnd)
    ELSE IF a2.pos >= Len(f.bytes) THEN ScanStop(f, 1, Len(f.bytes), TRUE)
    ELSE ScanLabel(f, a1, a2.pos + 1, Span(f.bytes, a2.pos + 1, NotEol))

\* %f with result a1
ScanFirst(f, a1) ==
    IF a1.status = "eof" THEN ScanStop(f, EOF, Len(f.bytes), TRUE)
    ELSE IF a1.status = "fail" THEN ScanStop(f, 0, a1.pos, a1.hitEnd)
    ELSE ScanSecond(f, a1, ScanFloat(f.bytes, a1.pos))

\* the whole call
Fscanf(f) == ScanFirst(f, ScanFloat(f.bytes, f.pos))

\* uint32_t timeToIndex(float timestamp, FormatChunk formatChunk): the
\* product of the time and the sample rate, truncated
timeToIndex(num, den, fc) ==
    LET sampleRate == littleEndianBytesToUInt32(SubSeq(fc, 13, 16))
        numberOfChannels == littleEndianBytesToUInt16(SubSeq(fc, 11, 12))
    IN  (num * sampleRate) \div den

\* the C string a char array holds: its bytes before the first zero
CString(array) ==
    IF \A j \in DOMAIN array : array[j] # 0 THEN array
    ELSE SubSeq(array, 1,
                (CHOOSE j \in DOMAIN array :
                    array[j] = 0 /\ \A k \in 1..(j - 1) : array[k] # 0) - 1)

\* lines 588-590: %[^\r\n] has no field width, so a text of 500 bytes or
\* more and its zero are stored past the end of labelString[500], which is
\* undefined
Overruns(s) == s.ret = 2 /\ Len(s.labelString) + 1 > LabelSize

\* what the build makes of a store past labelString.  A build that checks
\* its stores, or one whose frame ends before the text does, is killed
\* inside readLabelFile.  In a build that keeps nothing it reads later
\* behind the array the text is kept as it was read.  In a build that keeps
\* the sample index of line 599 behind the array, the index is stored over
\* the zero that ended the text, and the text runs on into its bytes.  The
\* one text explored that overruns is of 500 bytes, so a single zero is
\* stored past the array; its line has the time 0.5
OverrunOutcomes == {"killed", "kept", "runsOn"}

\* labelString as lines 600-601 read it
AsCopied(s, fc, outcome) ==
    IF Overruns(s) /\ outcome = "runsOn"
    THEN [s EXCEPT !.labelString =
            @ \o CString(uint32ToLittleEndianBytes(
                             timeToIndex(s.num, s.den, fc)))]
    ELSE s

\* lines 616-620 and 630-634: after a CR, a LF that follows is read too
GobbleLf(peekAhead) ==
    IF peekAhead.c # EOF /\ peekAhead.c # LF
    THEN Ungetc(peekAhead.f) ELSE peekAhead.f

\* lines 610-621: the character after the fscanf
AfterLine(nextChar) ==
    IF nextChar.c = CR THEN GobbleLf(Fgetc(nextChar.f)) ELSE nextChar.f

\* lines 623-640: the look ahead for the end of the file
LookAhead(nextChar) ==
    IF nextChar.f.eof THEN nextChar.f
    ELSE IF nextChar.c = CR THEN GobbleLf(Fgetc(nextChar.f))
    ELSE Ungetc(nextChar.f)

SkipLineEnding(f) == LookAhead(Fgetc(AfterLine(Fgetc(f))))

\* a sequence without the zeros at its end
RECURSIVE StripZeros(_)
StripZeros(bytes) ==
    IF bytes = <<>> \/ bytes[Len(bytes)] # 0 THEN bytes
    ELSE StripZeros(SubSeq(bytes, 1, Len(bytes) - 1))

\* what a char array holds after `written` was stored at its start; an
\* array is kept without the zeros at its end
Overwrite(array, written) ==
    StripZeros(written \o SubSeq(array, Len(written) + 1, Len(array)))

\* line 600: strcpy(labelInfo.labels[i], labelString).  The text and its
\* zero are stored from the start of labels[i]; what does not fit in its 500
\* bytes lies in labels[i + 1], the next bytes of the array of arrays
strcpy(labels, i, text) ==
    LET stored == text \o <<0>>
        spills == Len(stored) > LabelSize
        rows   == IF spills /\ Len(labels) < i + 2 THEN i + 2
                  ELSE IF Len(labels) < i + 1 THEN i + 1 ELSE Len(labels)
        before == [k \in 1..rows |->
                     IF k <= Len(labels) THEN labels[k] ELSE <<>>]
    IN  [k \in 1..rows |->
           IF k = i + 1
           THEN Overwrite(before[k],
                          SubSeq(stored, 1,
                                 IF spills THEN LabelSize ELSE Len(stored)))
           ELSE IF k = i + 2 /\ spills
           THEN Overwrite(before[k], SubSeq(stored, LabelSize + 1, Len(stored)))
           ELSE before[k]]

\* labelInfo.labelLengths[i]: strlen(labelString) + 1
labelLength(text) == Len(text) + 1

\* lines 599-602 while labelInfo.count is below the 500 elements of the
\* arrays: the element at index count is assigned (the arrays of the model
\* hold the elements assigned so far) and count goes up
StoreInBounds(location, text, info) ==
    IF info.count = Len(info.locations)
    THEN [locations    |-> Append(info.locations, location),
          labels       |-> strcpy(info.labels, info.count, text),
          labelLengths |-> Append(info.labelLengths, labelLength(text)),
          count        |-> info.count + 1]
    ELSE [locations    |-> [info.locations EXCEPT ![info.count + 1] = location],
          labels       |-> strcpy(info.labels, info.count, text),
          labelLengths |-> [info.labelLengths EXCEPT ![info.count + 1] =
                              labelLength(text)],
          count        |-> info.count + 1]

\* lines 599-602 with labelInfo.count = 500: the three assignments go past
\* the end of their arrays, which is undefined.  The members of the struct
\* follow one another, so locations[500] is the first four bytes of
\* labels[0]; labels[500] is the start of labelLengths, and strcpy stores
\* the text and its zero over the low bytes of labelLengths[0] (the texts
\* stored here are shorter than four bytes, so the upper half of the size_t
\* stays zero); labelLengths[500] is count.  A build that reads count from
\* memory for count++ goes on from the length just stored there; a build
\* that keeps count in a register, as it may when no valid assignment
\* changes it, goes on to 501
StoreBeyond(location, text, info, inRegister) ==
    [locations    |-> info.locations,
     labels       |-> [info.labels EXCEPT ![1] =
                         Overwrite(@, uint32ToLittleEndianBytes(location))],
     labelLengths |-> [info.labelLengths EXCEPT ![1] =
                         littleEndianBytesToUInt32(
                             SubSeq(text \o <<0>>
                                    \o SubSeq(uint32ToLittleEndianBytes(@),
                                              Len(text) + 2, 4),
                                    1, 4))],
     count        |-> IF inRegister THEN info.count + 1
                      ELSE labelLength(text) + 1]

\* lines 590-608: the entry stored for a line that fscanf read as s; no
\* label file explored has a valid line after its 501st
StoreLabel(s, info, fc, inRegister) ==
    IF s.ret = 2 /\ s.num <= MaxStartTime * s.den
    THEN IF info.count < MaxLabels
         THEN StoreInBounds(timeToIndex(s.num, s.den, fc), s.labelString, info)
         ELSE StoreBeyond(timeToIndex(s.num, s.den, fc), s.labelString, info,
                          inRegister)
    ELSE info

\* lines 587-642: one iteration of the loop of readLabelFile, s what fscanf
\* returned: the stream and the LabelInfo after it
LabelStep(s, info, fc, inRegister) ==
    [f |-> SkipLineEnding(s.f), info |-> StoreLabel(s, info, fc, inRegister)]

ReadLabelStep(f, info, fc, inRegister) ==
    LabelStep(Fscanf(f), info, fc, inRegister)

\* the loop of readLabelFile from a given state on
RECURSIVE LabelLoop(_, _, _)
LabelLoop(r, fc, inRegister) ==
    IF r.f.eof THEN r.info
    ELSE LabelLoop(ReadLabelStep(r.f, r.info, fc, inRegister), fc, inRegister)

EmptyLabelInfo ==
    [locations |-> <<>>, labels |-> <<>>, labelLengths |-> <<>>, count |-> 0]

\* LabelInfo readLabelFile(FILE *labelFile, FormatChunk formatChunk)
readLabelFile(bytes, fc, inRegister) ==
    LabelLoop([f |-> Stream(bytes), info |-> EmptyLabelInfo], fc, inRegister)

\* labelInfo.labels[i][j] for any j below the 250000 bytes of labels: the
\* arrays of the labels lie one after another, and what was never written
\* is zero
LabelByte(labels, offset) ==
    IF (offset \div LabelSize) + 1 <= Len(labels)
       /\ (offset % LabelSize) + 1 <= Len(labels[(offset \div LabelSize) + 1])
    THEN labels[(offset \div LabelSize) + 1][(offset % LabelSize) + 1]
    ELSE 0

\* the byte at an offset from the start of labelLengths: the size_t elements
\* are below 2^32, so their upper halves are zero, and the element at index
\* 500 is count with the four bytes that pad the struct
LengthsByte(info, offset) ==
    IF offset % SizeofSizeT >= 4 THEN 0
    ELSE IF offset \div SizeofSizeT < Len(info.labelLengths)
    THEN uint32ToLittleEndianBytes(
             info.labelLengths[(offset \div SizeofSizeT) + 1])[(offset % SizeofSizeT) + 1]
    ELSE IF offset \div SizeofSizeT = MaxLabels
    THEN uint32ToLittleEndianBytes(info.count)[(offset % SizeofSizeT) + 1]
    ELSE 0

\* the byte at an offset from the start of labels, which labelLengths
\* follows in the struct
LabelByteAt(info, offset) ==
    IF offset < MaxLabels * LabelSize THEN LabelByte(info.labels, offset)
    ELSE LengthsByte(info, offset - MaxLabels * LabelSize)

\* labelInfo.locations[i], which for i = 500 is the start of labels[0]
LocationAt(info, i) ==
    IF i < MaxLabels THEN info.locations[i + 1]
    ELSE littleEndianBytesToUInt32(
             [k \in 1..4 |-> LabelByte(info.labels, 4 * (i - MaxLabels) + k - 1)])

\* labelInfo.labelLengths[i], which for i = 500 is count
LengthAt(info, i) ==
    IF i < MaxLabels THEN info.labelLengths[i + 1] ELSE info.count

---------------------------------------------------------------------------
(* The input files explored.  A WAVE file is the 12-byte header and a      *)
(* sequence of chunks, each drawn from ChunkMenu; up to MaxCut bytes may  *)
(* be missing from the end of the last chunk's payload and pad byte.      *)

SeqsUpTo(S, n) == UNION { [1..k -> S] : k \in 0..n }

Pad(n) == IF n % 2 # 0 THEN <<0>> ELSE <<>>

Chunk(id, payload) ==
    id \o uint32ToLittleEndianBytes(Len(payload)) \o payload \o Pad(Len(payload))

\* compression code, 2 channels, 8 frames a second, 32 bytes a second,
\* block align 4, 16 bits
Descriptor(code) ==
    <<code, 0, 2, 0, 8, 0, 0, 0, 32, 0, 0, 0, 4, 0, 16, 0>>

FmtPcm      == Chunk(FMT_, Descriptor(WAVE_FORMAT_PCM))
FmtExtra    == Chunk(FMT_, Descriptor(WAVE_FORMAT_IEEE_FLOAT) \o <<7>>)
FmtAdpcm    == Chunk(FMT_, Descriptor(2))
DataEven    == Chunk(DATA, <<21, 22>>)
DataOdd     == Chunk(DATA, <<31, 32, 33>>)
OldCue      == Chunk(CUE_, <<0, 0, 0, 0>>)
OldAdtl     == Chunk(LIST, ADTL \o <<120>>)
ListInfo    == Chunk(LIST, <<73, 78, 70, 79, 122, 122>>)
ListEmpty   == Chunk(LIST, <<>>)
Junk        == Chunk(<<74, 85, 78, 75>>, <<9>>)

ChunkMenu ==
    {FmtPcm, FmtExtra, DataEven, DataOdd, OldCue, OldAdtl, ListInfo,
     ListEmpty, Junk}

WavOf(riff, wave, chunks) ==
    LET body == Concat(chunks)
    IN  riff \o uint32ToLittleEndianBytes(4 + Len(body)) \o wave \o body

\* the bytes after the length field of the last chunk
TailLen(chunks) ==
    IF chunks = <<>> THEN 0 ELSE Len(chunks[Len(chunks)]) - 8

CutEnd(bytes, k) == SubSeq(bytes, 1, Len(bytes) - k)

DefaultWav == WavOf(RIFF, WAVE, <<FmtPcm, DataOdd>>)

\* files that already carry annotations: a chunk of AnnotationMenu before
\* the fmt chunk, one between it and the data chunk, and two at the end
AnnotationMenu == {OldCue, OldAdtl, Junk}

AnnotatedFiles ==
    { WavOf(RIFF, WAVE, <<a[1], FmtPcm, a[2], DataOdd, a[3], a[4]>>) :
        a \in [1..4 -> AnnotationMenu] }

\* a file with n chunks to preserve after its fmt and data chunks
WithOthers(n) ==
    WavOf(RIFF, WAVE, <<FmtPcm, DataOdd>> \o [i \in 1..n |-> Junk])

WavFiles ==
    { CutEnd(WavOf(RIFF, WAVE, cs), k) :
        <<cs, k>> \in { x \in SeqsUpTo(ChunkMenu, MaxChunks) \X (0..MaxCut) :
                          x[2] <= TailLen(x[1]) } }
    \cup AnnotatedFiles
    \cup { WithOthers(maxOtherChunks), WithOthers(maxOtherChunks + 1) }
    \cup { WavOf(<<82, 73, 70, 88>>, WAVE, <<FmtPcm, DataOdd>>),
           WavOf(RIFF, <<65, 86, 73, 32>>, <<FmtPcm, DataOdd>>),
           WavOf(RIFF, WAVE, <<FmtAdpcm, DataOdd>>) }

(* The label files explored.  A line is a start time (its decimal text and *)
(* its value in half seconds), a label text and a form: "full" is the      *)
(* record "start TAB end TAB text", "time" a start time and nothing else,  *)
(* "text" a text and nothing else (so also the empty line).  A file is up  *)
(* to MaxRecords lines in one line-ending style, with or without the       *)
(* ending after the last line.                                             *)

RecordMenu ==
    { [form |-> "full", time |-> <<48, 46, 53>>, halves |-> 1,
       text |-> <<97>>],                                        \* 0.5 a
      [form |-> "full", time |-> <<49, 46, 53>>, halves |-> 3,
       text |-> <<98, 98>>],                                    \* 1.5 bb
      [form |-> "full", time |-> <<53, 48, 48, 48, 48>>, halves |-> 100000,
       text |-> <<99>>],                                        \* 50000 c
      [form |-> "time", time |-> <<50>>, halves |-> 4,
       text |-> <<>>],                                          \* 2
      [form |-> "text", time |-> <<>>, halves |-> 0,
       text |-> <<122, 122>>],                                  \* zz
      [form |-> "text", time |-> <<>>, halves |-> 0,
       text |-> <<>>] }                                         \* empty line

LineEndings == { <<LF>>, <<CR, LF>>, <<CR>> }

Line(rec) ==
    IF rec.form = "full"
    THEN rec.time \o <<9>> \o rec.time \o <<9>> \o rec.text
    ELSE IF rec.form = "time" THEN rec.time
    ELSE rec.text

Lines(recs, ending, final) ==
    Concat([i \in 1..Len(recs) |->
               Line(recs[i])
               \o (IF i < Len(recs) \/ final THEN ending ELSE <<>>)])

LabelSources ==
    [records : SeqsUpTo(RecordMenu, MaxRecords) \ {<<>>},
     ending : LineEndings, final : BOOLEAN]
    \cup [records : {<<>>}, ending : {<<LF>>}, final : {FALSE}]

LabelText(src) == Lines(src.records, src.ending, src.final)

DefaultLabels ==
    [records |-> << [form |-> "full", time |-> <<48, 46, 53>>, halves |-> 1,
                     text |-> <<97>>],
                    [form |-> "full", time |-> <<49, 46, 53>>, halves |-> 3,
                     text |-> <<98, 98>>] >>,
     ending |-> <<CR, LF>>, final |-> TRUE]

\* a label file of one record more than the arrays of LabelInfo hold
OverCapacity ==
    [records |-> [i \in 1..(MaxLabels + 1) |->
                     [form |-> "full", time |-> <<48, 46, 53>>, halves |-> 1,
                      text |-> <<97>>]],
     ending |-> <<CR, LF>>, final |-> TRUE]

\* a label file of one line, its text as long as labelString: the zero
\* that ends the text has no room in the array
OverLong ==
    [records |-> << [form |-> "full", time |-> <<48, 46, 53>>, halves |-> 1,
                     text |-> [i \in 1..LabelSize |-> 97]] >>,
     ending |-> <<LF>>, final |-> TRUE]

\* every input file with the default label file, and the default input
\* file with every label file
Inputs ==
    (WavFiles \X {DefaultLabels})
    \cup ({DefaultWav} \X (LabelSources \cup {OverCapacity, OverLong}))

---------------------------------------------------------------------------
(* addLabelsToWaveFile, from the two input files opened to the return.    *)

\* what memory that was never written may hold
GarbageBytes == {0, 85}

NoLocation == [startOffset |-> 0, size |-> 0]
NoCueChunk ==
    [chunkID |-> <<0, 0, 0, 0>>, chunkDataSize |-> <<0, 0, 0, 0>>,
     cuePointsCount |-> <<0, 0, 0, 0>>, cuePoints |-> <<>>]
NoListChunk ==
    [chunkID |-> <<0, 0, 0, 0>>, chunkDataSize |-> <<0, 0, 0, 0>>,
     typeID |-> <<0, 0, 0, 0>>, labelChunks |-> <<>>]

NoBlocks ==
    [waveHeader |-> 0, formatChunk |-> 0, cuePoints |-> 0, labelChunks |-> 0]

\* the locals of addLabelsToWaveFile as their initialisers leave them, and
\* the two input files opened
Start(wavBytes, labelBytes) ==
    /\ inputFile = Stream(wavBytes)
    /\ labelFile = Stream(labelBytes)
    /\ outputFile = <<>>
    /\ waveHeader = <<>>
    /\ formatChunk = <<>>
    /\ formatChunkExtraBytes = NoLocation
    /\ dataChunkLocation = NoLocation
    /\ otherChunkLocations = <<>>
    /\ labelInfo = EmptyLabelInfo
    /\ cueChunk = NoCueChunk
    /\ listChunk = NoListChunk
    /\ listChunkSize = 0
    /\ otherIdx = 0
    /\ returnCode = 0
    /\ pc = "readHeader"
    /\ chunkStarts = <<>>
    /\ copied = <<>>
    /\ openStreams = {"inputFile", "labelFile"}
    /\ allocated = NoBlocks

\* label files that are any bytes at all: line endings, a tab, a digit and
\* a letter in any order
ByteMenu == {CR, LF, 9, 49, 97}

ByteFiles == SeqsUpTo(ByteMenu, MaxBytes) \cup {LabelText(OverLong)}

\* a conversion of an input with a chunk to preserve, the label file any
\* sequence of bytes, written from no records
InitBytes ==
    \E bytes \in ByteFiles :
        /\ Start(WavOf(RIFF, WAVE, <<FmtPcm, DataOdd, Junk>>), bytes)
        /\ labelSource = [records |-> <<>>, ending |-> <<LF>>, final |-> FALSE]
        /\ run = 1
        /\ firstRun = [input |-> <<>>, output |-> <<>>, chunkStarts |-> <<>>]

Init ==
    \E in \in Inputs :
        /\ Start(in[1], LabelText(in[2]))
        /\ labelSource = in[2]
        /\ run = 1
        /\ firstRun = [input |-> <<>>, output |-> <<>>, chunkStarts |-> <<>>]

history == <<run, firstRun, labelSource>>
scanned == <<waveHeader, formatChunk, formatChunkExtraBytes,
             dataChunkLocation, otherChunkLocations>>
built   == <<cueChunk, listChunk, listChunkSize>>
written == <<outputFile, otherIdx, chunkStarts, copied>>
resources == <<openStreams, allocated>>

\* returnCode = -1; goto CleanUpAndExit;
Fail == returnCode' = -1 /\ pc' = "cleanUp"

\* lines 172-209: the container header
ReadHeader ==
    /\ pc = "readHeader"
    /\ \E g \in GarbageBytes :
        LET r   == Fread(inputFile, 12)
            hdr == Buffer(r.data, 12, g)
        IN  /\ inputFile' = r.f
            /\ waveHeader' = hdr
            /\ IF SubSeq(hdr, 1, 4) # RIFF THEN Fail
               ELSE IF SubSeq(hdr, 9, 12) # WAVE THEN Fail
               \* remainingFileSize <= 0, of an unsigned difference
               ELSE IF littleEndianBytesToUInt32(SubSeq(hdr, 5, 8)) = 4 THEN Fail
               ELSE pc' = "scan" /\ UNCHANGED returnCode
    /\ allocated' = [allocated EXCEPT !.waveHeader = @ + 1]
    /\ UNCHANGED <<labelFile, formatChunk, formatChunkExtraBytes,
                   dataChunkLocation, otherChunkLocations, labelInfo>>
    /\ UNCHANGED <<built, written, history, openStreams>>

\* fseek over a chunk's data and its padding byte
SkipData(f, size) ==
    LET f1 == FseekCur(f, size)
    IN  IF size % 2 # 0 THEN FseekCur(f1, 1) ELSE f1

\* lines 232-279: a 'fmt ' chunk, f the stream after its identifier.  Every
\* fmt chunk met here declares at least 16 bytes, so the unsigned
\* difference does not wrap
ScanFormat(f, g) ==
    LET r  == Fread(FseekCur(f, -4), SizeofFormatChunk)
        fc == Buffer(r.data, SizeofFormatChunk, g)
        compressionCode == littleEndianBytesToUInt16(SubSeq(fc, 9, 10))
        extraFormatBytesCount == littleEndianBytesToUInt32(SubSeq(fc, 5, 8)) - 16
    IN  /\ formatChunk' = fc
        /\ IF compressionCode # WAVE_FORMAT_PCM
              /\ compressionCode # WAVE_FORMAT_IEEE_FLOAT
           THEN /\ Fail
                /\ inputFile' = r.f
                /\ UNCHANGED formatChunkExtraBytes
           ELSE /\ UNCHANGED <<pc, returnCode>>
                /\ IF extraFormatBytesCount > 0
                   THEN /\ formatChunkExtraBytes' =
                             [startOffset |-> r.f.pos,
                              size |-> extraFormatBytesCount]
                        /\ inputFile' = SkipData(r.f, extraFormatBytesCount)
                   ELSE /\ UNCHANGED formatChunkExtraBytes
                        /\ inputFile' = r.f
        /\ UNCHANGED <<dataChunkLocation, otherChunkLocations>>

\* lines 281-307: a 'data' chunk
ScanData(f, g) ==
    LET r == Fread(f, 4)
        sampleDataSize == littleEndianBytesToUInt32(Buffer(r.data, 4, g))
    IN  /\ dataChunkLocation' =
             [startOffset |-> f.pos - 4, size |-> 4 + 4 + sampleDataSize]
        /\ inputFile' = SkipData(r.f, sampleDataSize)
        /\ UNCHANGED <<pc, returnCode, formatChunk, formatChunkExtraBytes,
                       otherChunkLocations>>

\* lines 382-417: a chunk to copy later, f the stream after its identifier
NoteOtherChunk(f) ==
    LET r == Fread(f, 4)
        chunkDataSize == littleEndianBytesToUInt32(Buffer(r.data, 4, 0))
    IN  IF Len(otherChunkLocations) >= maxOtherChunks
        THEN /\ Fail
             /\ inputFile' = f
             /\ UNCHANGED otherChunkLocations
        ELSE /\ otherChunkLocations' =
                  Append(otherChunkLocations,
                         [startOffset |-> f.pos - 4,
                          size |-> 4 + 4 + chunkDataSize])
             /\ inputFile' = SkipData(r.f, chunkDataSize)
             /\ UNCHANGED <<pc, returnCode>>

\* a seeded fault: an existing 'cue ' chunk kept like any other chunk
ScanCueAsOther(f, g) ==
    /\ NoteOtherChunk(f)
    /\ UNCHANGED <<formatChunk, formatChunkExtraBytes, dataChunkLocation>>

\* lines 309-331: an existing 'cue ' chunk
ScanCue(f, g) ==
    LET r == Fread(f, 4)
        cueChunkDataSize == littleEndianBytesToUInt32(Buffer(r.data, 4, g))
    IN  /\ inputFile' = SkipData(r.f, cueChunkDataSize)
        /\ UNCHANGED <<pc, returnCode, formatChunk, formatChunkExtraBytes,
                       dataChunkLocation, otherChunkLocations>>

\* lines 333-418: a 'LIST' chunk or a chunk of any other kind
ScanOther(f, isList) ==
    LET r1 == Fread(f, 4)
        chunkDataSize == littleEndianBytesToUInt32(Buffer(r1.data, 4, 0))
        r2 == Fread(r1.f, 4)                            \* listTypeID
        overAdtl == FseekCur(r2.f, chunkDataSize - 4)
    IN  /\ IF ~isList THEN NoteOtherChunk(f)
           ELSE IF r2.f.eof
           THEN /\ pc' = "checkScan"                    \* break
                /\ inputFile' = r2.f
                /\ UNCHANGED <<returnCode, otherChunkLocations>>
           ELSE IF r2.data = ADTL
           THEN /\ inputFile' = IF chunkDataSize % 2 # 0
                                THEN FseekCur(overAdtl, 1) ELSE overAdtl
                /\ UNCHANGED <<pc, returnCode, otherChunkLocations>>
           ELSE NoteOtherChunk(FseekCur(r2.f, -8))
        /\ UNCHANGED <<formatChunk, formatChunkExtraBytes, dataChunkLocation>>

\* lines 212-419: one iteration of the loop over the chunks
ScanChunk ==
    /\ pc = "scan"
    /\ \E g \in GarbageBytes :
        LET id == Fread(inputFile, 4)                   \* nextChunkID
        IN  IF id.f.eof
            THEN /\ pc' = "checkScan"                   \* break
                 /\ inputFile' = id.f
                 /\ UNCHANGED <<returnCode, formatChunk, formatChunkExtraBytes,
                                dataChunkLocation, otherChunkLocations>>
            ELSE IF id.data = FMT_ THEN ScanFormat(id.f, g)
            ELSE IF id.data = DATA THEN ScanData(id.f, g)
            ELSE IF id.data = CUE_ THEN ScanCue(id.f, g)
            ELSE ScanOther(id.f, id.data = LIST)
    \* line 236: a block is allocated for every fmt chunk met
    /\ allocated' =
         IF Slice(inputFile.bytes, inputFile.pos, 4) = FMT_
         THEN [allocated EXCEPT !.formatChunk = @ + 1]
         ELSE allocated
    /\ UNCHANGED <<labelFile, waveHeader, labelInfo>>
    /\ UNCHANGED <<built, written, history, openStreams>>

\* lines 421-428: did the input hold a format and a data chunk?
CheckScan ==
    /\ pc = "checkScan"
    /\ IF formatChunk = <<>> \/ dataChunkLocation.size = 0
       THEN Fail
       ELSE pc' = "readLabels" /\ UNCHANGED returnCode
    /\ UNCHANGED <<inputFile, labelFile, labelInfo>>
    /\ UNCHANGED <<scanned, built, written, history, resources>>

\* lines 585-643: one iteration of the loop of readLabelFile
ReadLabelLine ==
    /\ pc = "readLabels"
    /\ ~labelFile.eof
    /\ \E inRegister \in BOOLEAN, outcome \in OverrunOutcomes :
        LET s == Fscanf(labelFile)
            r == LabelStep(AsCopied(s, formatChunk, outcome), labelInfo,
                           formatChunk, inRegister)
        IN  IF Overruns(s) /\ outcome = "killed"
            THEN pc' = "killed" /\ UNCHANGED <<labelFile, labelInfo>>
            ELSE labelFile' = r.f /\ labelInfo' = r.info /\ UNCHANGED pc
    /\ UNCHANGED <<inputFile, returnCode>>
    /\ UNCHANGED <<scanned, built, written, history, resources>>

\* lines 456-468: the size of the labl records
RECURSIVE ListChunkSize(_)
ListChunkSize(labelLengths) ==
    IF labelLengths = <<>> THEN 0
    ELSE IF Len(labelLengths) = 1
    THEN (12 + labelLengths[1]) + (IF labelLengths[1] % 2 # 0 THEN 1 ELSE 0)
    ELSE ListChunkSize(SubSeq(labelLengths, 1, Len(labelLengths) \div 2))
         + ListChunkSize(SubSeq(labelLengths, (Len(labelLengths) \div 2) + 1,
                                Len(labelLengths)))

\* a seeded fault: cue points numbered from zero
CuePointFromZero(i, location) ==
    uint32ToLittleEndianBytes(i)
    \o uint32ToLittleEndianBytes(location)
    \o DATA
    \o uint32ToLittleEndianBytes(0)
    \o uint32ToLittleEndianBytes(0)
    \o uint32ToLittleEndianBytes(location)

\* lines 483-491: cueChunk.cuePoints[i]
CuePoint(i, location) ==
    uint32ToLittleEndianBytes(i + 1)            \* cuePointID
    \o uint32ToLittleEndianBytes(location)      \* playOrderPosition
    \o DATA                                     \* dataChunkID
    \o uint32ToLittleEndianBytes(0)             \* chunkStart
    \o uint32ToLittleEndianBytes(0)             \* blockStart
    \o uint32ToLittleEndianBytes(location)      \* frameOffset

\* lines 494-516: the labl record of label i
LabelChunk(i, info) ==
    LABL
    \o uint32ToLittleEndianBytes(LengthAt(info, i) + 4)
    \o SubSeq(CuePoint(i, 0), 1, 4)
    \o [j \in 1..LengthAt(info, i) |->
           LabelByteAt(info, LabelSize * i + j - 1)]
    \o (IF LengthAt(info, i) % 2 # 0 THEN <<0>> ELSE <<>>)

\* lines 430-544: the label file is read; build the two new chunks and open
\* the output file
PrepareChunks ==
    /\ pc = "readLabels"
    /\ labelFile.eof
    /\ LET count == labelInfo.count
       IN  IF count < 1
           THEN Fail /\ UNCHANGED <<built, resources>>
           ELSE /\ listChunkSize' =
                     ListChunkSize([i \in 1..count |-> LengthAt(labelInfo, i - 1)])
                /\ cueChunk' =
                     [chunkID |-> CUE_,
                      chunkDataSize |->
                          uint32ToLittleEndianBytes(4 + SizeofCuePoint * count),
                      cuePointsCount |-> uint32ToLittleEndianBytes(count),
                      cuePoints |->
                          [i \in 1..count |->
                              CuePoint(i - 1, LocationAt(labelInfo, i - 1))]]
                /\ listChunk' =
                     [chunkID |-> LIST,
                      chunkDataSize |->
                          uint32ToLittleEndianBytes(4 + listChunkSize'),
                      typeID |-> ADTL,
                      labelChunks |->
                          Concat([i \in 1..count |->
                              LabelChunk(i - 1, labelInfo)])]
                /\ allocated' = [allocated EXCEPT !.cuePoints = @ + 1,
                                                   !.labelChunks = @ + 1]
                /\ openStreams' = openStreams \cup {"outputFile"}
                /\ pc' = "writeHeader"
                /\ UNCHANGED returnCode
    /\ UNCHANGED <<inputFile, labelFile, labelInfo>>
    /\ UNCHANGED <<scanned, written, history>>

---------------------------------------------------------------------------
(* writeOutputFile and the copier.                                        *)

\* lines 793-847: the bytes the copier writes for a location and the input
\* stream as it leaves it; what a buffer holds beyond the bytes read is
\* whatever the stack held
RECURSIVE CopyBytes(_, _, _)
CopyBytes(f, remainingBytesToWrite, g) ==
    IF remainingBytesToWrite >= CopyBufferSize
    THEN LET r    == Fread(f, CopyBufferSize)
             rest == CopyBytes(r.f, remainingBytesToWrite - CopyBufferSize, g)
         IN  [out |-> Buffer(r.data, CopyBufferSize, g) \o rest.out, f |-> rest.f]
    ELSE IF remainingBytesToWrite > 0
    THEN LET r == Fread(f, remainingBytesToWrite)
         IN  [out |-> Buffer(r.data, remainingBytesToWrite, g), f |-> r.f]
    ELSE [out |-> <<>>, f |-> f]

writeChunkLocationFromInputFileToOutputFile(chunk, f, g) ==
    CopyBytes(FseekSet(f, chunk.startOffset), chunk.size, g)

\* a seeded fault: no padding byte is written
NoPad(size) == <<>>

\* the padding byte written after a location of odd size
PadFor(size) == IF size % 2 # 0 THEN <<0>> ELSE <<>>

\* a seeded fault: the padding bytes are left out of the total
RECURSIVE SumOfSizesUnpadded(_)
SumOfSizesUnpadded(locs) ==
    IF locs = <<>> THEN 0
    ELSE IF Len(locs) = 1 THEN locs[1].size
    ELSE SumOfSizesUnpadded(SubSeq(locs, 1, Len(locs) \div 2))
         + SumOfSizesUnpadded(SubSeq(locs, (Len(locs) \div 2) + 1, Len(locs)))

\* the sizes of the locations and their padding bytes, summed half by half
RECURSIVE SumOfSizes(_)
SumOfSizes(locs) ==
    IF locs = <<>> THEN 0
    ELSE IF Len(locs) = 1
    THEN locs[1].size + (IF locs[1].size % 2 # 0 THEN 1 ELSE 0)
    ELSE SumOfSizes(SubSeq(locs, 1, Len(locs) \div 2))
         + SumOfSizes(SubSeq(locs, (Len(locs) \div 2) + 1, Len(locs)))

\* lines 653-684: uint32_t fileDataSize
FileDataSize ==
    4 + SizeofFormatChunk
    + SumOfSizes(<<formatChunkExtraBytes, dataChunkLocation>>)
    + SumOfSizes(otherChunkLocations)
    + 4 + 4 + 4 + SizeofCuePoint * labelInfo.count
    + 4 + 4 + 4 + listChunkSize

\* lines 653-693: the header with the new size
WriteHeader ==
    /\ pc = "writeHeader"
    /\ waveHeader' = SubSeq(waveHeader, 1, 4)
                     \o uint32ToLittleEndianBytes(FileDataSize)
                     \o SubSeq(waveHeader, 9, 12)
    /\ outputFile' = outputFile \o waveHeader'
    /\ pc' = "writeFormat"
    /\ UNCHANGED <<inputFile, labelFile, labelInfo, returnCode, formatChunk,
                   formatChunkExtraBytes, dataChunkLocation,
                   otherChunkLocations, otherIdx, chunkStarts, copied>>
    /\ UNCHANGED <<built, history, resources>>

\* lines 695-715: the format chunk and its extra bytes
WriteFormat ==
    /\ pc = "writeFormat"
    /\ \E g \in GarbageBytes :
        LET c == writeChunkLocationFromInputFileToOutputFile(
                     formatChunkExtraBytes, inputFile, g)
        IN  IF formatChunkExtraBytes.size > 0
            THEN /\ outputFile' = outputFile \o formatChunk \o c.out
                                  \o PadFor(formatChunkExtraBytes.size)
                 /\ inputFile' = c.f
                 /\ copied' = Append(copied, formatChunkExtraBytes)
            ELSE /\ outputFile' = outputFile \o formatChunk
                 /\ UNCHANGED <<inputFile, copied>>
    /\ chunkStarts' = Append(chunkStarts, Len(outputFile))
    /\ pc' = "writeData"
    /\ UNCHANGED <<labelFile, labelInfo, returnCode, otherIdx>>
    /\ UNCHANGED <<scanned, built, history, resources>>

\* lines 717-729: the data chunk
WriteData ==
    /\ pc = "writeData"
    /\ \E g \in GarbageBytes :
        LET c == writeChunkLocationFromInputFileToOutputFile(
                     dataChunkLocation, inputFile, g)
        IN  /\ outputFile' = outputFile \o c.out \o PadFor(dataChunkLocation.size)
            /\ inputFile' = c.f
    /\ copied' = Append(copied, dataChunkLocation)
    /\ chunkStarts' = Append(chunkStarts, Len(outputFile))
    /\ pc' = "writeCue"
    /\ UNCHANGED <<labelFile, labelInfo, returnCode, otherIdx>>
    /\ UNCHANGED <<scanned, built, history, resources>>

\* a seeded fault: the LIST chunk is written where the cue chunk belongs
WriteListForCue ==
    /\ pc = "writeCue"
    /\ outputFile' =
         outputFile \o listChunk.chunkID \o listChunk.chunkDataSize
         \o listChunk.typeID
         \o SubSeq(listChunk.labelChunks, 1, listChunkSize)
    /\ chunkStarts' = Append(chunkStarts, Len(outputFile))
    /\ pc' = "writeList"
    /\ UNCHANGED <<inputFile, labelFile, labelInfo, returnCode, otherIdx, copied>>
    /\ UNCHANGED <<scanned, built, history, resources>>

\* lines 731-746: the new cue chunk
WriteCue ==
    /\ pc = "writeCue"
    /\ outputFile' =
         outputFile \o cueChunk.chunkID \o cueChunk.chunkDataSize
         \o cueChunk.cuePointsCount
         \o Concat([i \in 1..littleEndianBytesToUInt32(cueChunk.cuePointsCount)
                       |-> cueChunk.cuePoints[i]])
    /\ chunkStarts' = Append(chunkStarts, Len(outputFile))
    /\ pc' = "writeList"
    /\ UNCHANGED <<inputFile, labelFile, labelInfo, returnCode, otherIdx, copied>>
    /\ UNCHANGED <<scanned, built, history, resources>>

\* lines 748-771: the new LIST chunk
WriteList ==
    /\ pc = "writeList"
    /\ outputFile' =
         outputFile \o listChunk.chunkID \o listChunk.chunkDataSize
         \o listChunk.typeID
         \o SubSeq(listChunk.labelChunks, 1, listChunkSize)
         \o PadFor(listChunkSize)
    /\ chunkStarts' = Append(chunkStarts, Len(outputFile))
    /\ pc' = "writeOther"
    /\ UNCHANGED <<inputFile, labelFile, labelInfo, returnCode, otherIdx, copied>>
    /\ UNCHANGED <<scanned, built, history, resources>>

\* lines 773-788: one iteration of the loop over the other chunks
WriteOther ==
    /\ pc = "writeOther"
    /\ otherIdx < Len(otherChunkLocations)
    /\ \E g \in GarbageBytes :
        LET loc == otherChunkLocations[otherIdx + 1]
            c   == writeChunkLocationFromInputFileToOutputFile(loc, inputFile, g)
        IN  /\ outputFile' = outputFile \o c.out \o PadFor(loc.size)
            /\ inputFile' = c.f
            /\ copied' = Append(copied, loc)
    /\ chunkStarts' = Append(chunkStarts, Len(outputFile))
    /\ otherIdx' = otherIdx + 1
    /\ UNCHANGED <<labelFile, labelInfo, returnCode, pc>>
    /\ UNCHANGED <<scanned, built, history, resources>>

\* lines 790 and 546-552: writeOutputFile returns 0, returnCode stays 0
Finish ==
    /\ pc = "writeOther"
    /\ otherIdx >= Len(otherChunkLocations)
    /\ returnCode' = 0
    /\ pc' = "cleanUp"
    /\ UNCHANGED <<inputFile, labelFile, labelInfo>>
    /\ UNCHANGED <<scanned, built, written, history, resources>>

\* lines 554-571: what the pointers hold is closed and freed, each once
CleanUpAndExit ==
    /\ pc = "cleanUp"
    /\ openStreams' = {}
    /\ allocated' =
         [waveHeader  |-> IF waveHeader # <<>>
                          THEN allocated.waveHeader - 1
                          ELSE allocated.waveHeader,
          formatChunk |-> IF formatChunk # <<>>
                          THEN allocated.formatChunk - 1
                          ELSE allocated.formatChunk,
          cuePoints   |-> IF cueChunk.cuePoints # <<>>
                          THEN allocated.cuePoints - 1
                          ELSE allocated.cuePoints,
          labelChunks |-> IF listChunk.labelChunks # <<>>
                          THEN allocated.labelChunks - 1
                          ELSE allocated.labelChunks]
    /\ pc' = "done"
    /\ UNCHANGED <<inputFile, labelFile, labelInfo, returnCode>>
    /\ UNCHANGED <<scanned, built, written, history>>

\* the program is run again, on the file it wrote and the same label file
Rerun ==
    /\ pc = "done"
    /\ returnCode = 0
    /\ run = 1
    /\ run' = 2
    /\ firstRun' = [input |-> inputFile.bytes, output |-> outputFile,
                    chunkStarts |-> chunkStarts]
    /\ inputFile' = Stream(outputFile)
    /\ labelFile' = Stream(labelFile.bytes)
    /\ outputFile' = <<>>
    /\ waveHeader' = <<>>
    /\ formatChunk' = <<>>
    /\ formatChunkExtraBytes' = NoLocation
    /\ dataChunkLocation' = NoLocation
    /\ otherChunkLocations' = <<>>
    /\ labelInfo' = EmptyLabelInfo
    /\ cueChunk' = NoCueChunk
    /\ listChunk' = NoListChunk
    /\ listChunkSize' = 0
    /\ otherIdx' = 0
    /\ returnCode' = 0
    /\ pc' = "readHeader"
    /\ chunkStarts' = <<>>
    /\ copied' = <<>>
    /\ openStreams' = {"inputFile", "labelFile"}
    /\ allocated' = NoBlocks
    /\ UNCHANGED labelSource

Next ==
    \/ ReadHeader
    \/ ScanChunk
    \/ CheckScan
    \/ ReadLabelLine
    \/ PrepareChunks
    \/ WriteHeader
    \/ WriteFormat
    \/ WriteData
    \/ WriteCue
    \/ WriteList
    \/ WriteOther
    \/ Finish
    \/ CleanUpAndExit
    \/ Rerun

Spec == Init /\ [][Next]_vars

\* line 585: the loop of readLabelFile has an iteration to run that
\* changes the state, which is ENABLED <<ReadLabelLine>>_vars
LoopGoesOn ==
    /\ pc = "readLabels"
    /\ ~labelFile.eof
    /\ \/ Overruns(Fscanf(labelFile))
       \/ \E inRegister \in BOOLEAN :
            LET r == ReadLabelStep(labelFile, labelInfo, formatChunk,
                                   inRegister)
            IN  <<r.f, r.info>> # <<labelFile, labelInfo>>

\* the loop runs its next iteration for as long as its condition holds:
\* weak fairness of ReadLabelLine, its enabling condition written out
LoopRuns == []<>~LoopGoesOn \/ []<><<ReadLabelLine>>_vars

\* conversions with label files of arbitrary bytes
SpecLive == InitBytes /\ [][Next]_vars /\ LoopRuns

---------------------------------------------------------------------------
(* The container format, read without the scanner: what a RIFF reader     *)
(* finds in a stream, and what the writer put into the output.            *)

\* is there room for a chunk's identifier and length at the 0-based offset p?
HasChunk(bytes, p) == p + 8 <= Len(bytes)

\* the chunk at offset p, if there is one: identifier, declared length, the
\* bytes the stream has of the payload, and the offset the chunk starts at
ChunkHere(bytes, p) ==
    IF ~HasChunk(bytes, p) THEN <<>>
    ELSE << [chunkID |-> Slice(bytes, p, 4),
             size    |-> littleEndianBytesToUInt32(Slice(bytes, p + 4, 4)),
             start   |-> p,
             payload |-> Slice(bytes, p + 8,
                               littleEndianBytesToUInt32(Slice(bytes, p + 4, 4)))] >>

\* the offset after the chunk at p and its pad byte; the end of the stream
\* if there is no chunk at p
AfterChunk(bytes, p) ==
    IF ~HasChunk(bytes, p) THEN Len(bytes)
    ELSE p + 8 + littleEndianBytesToUInt32(Slice(bytes, p + 4, 4))
           + (littleEndianBytesToUInt32(Slice(bytes, p + 4, 4)) % 2)

\* the chunks of a stream from the offset p on, eight at a time
RECURSIVE ChunksFrom(_, _)
ChunksFrom(bytes, p) ==
    IF ~HasChunk(bytes, p) THEN <<>>
    ELSE LET p1 == AfterChunk(bytes, p)
             p2 == AfterChunk(bytes, p1)
             p3 == AfterChunk(bytes, p2)
             p4 == AfterChunk(bytes, p3)
             p5 == AfterChunk(bytes, p4)
             p6 == AfterChunk(bytes, p5)
             p7 == AfterChunk(bytes, p6)
         IN  ChunkHere(bytes, p) \o ChunkHere(bytes, p1)
             \o ChunkHere(bytes, p2) \o ChunkHere(bytes, p3)
             \o ChunkHere(bytes, p4) \o ChunkHere(bytes, p5)
             \o ChunkHere(bytes, p6) \o ChunkHere(bytes, p7)
             \o ChunksFrom(bytes, AfterChunk(bytes, p7))

InputChunks == ChunksFrom(inputFile.bytes, 12)

InputChunkSet ==
    LET chunks == InputChunks IN { chunks[i] : i \in DOMAIN chunks }

IsAdtl(c) == c.chunkID = LIST /\ Slice(c.payload, 0, 4) = ADTL

\* a chunk the conversion is to carry over
IsOther(c) == c.chunkID \notin {FMT_, DATA, CUE_} /\ ~IsAdtl(c)

\* a chunk as a well-formed stream holds it: identifier, length, payload
\* and the zero pad byte after an odd payload
Image(c) ==
    c.chunkID \o uint32ToLittleEndianBytes(c.size) \o c.payload \o Pad(c.size)

\* the stream's 0-based byte range a chunk occupies, pad byte included
ExtentOf(c) == c.start .. (c.start + 8 + c.size + (c.size % 2) - 1)

Converted == pc = "done" /\ returnCode = 0

\* the bytes between the places where the writer began its k-th chunk and
\* its next one
ChunkAt(out, starts, k) ==
    Slice(out, starts[k],
          (IF k < Len(starts) THEN starts[k + 1] ELSE Len(out)) - starts[k])

Written(k) == ChunkAt(outputFile, chunkStarts, k)

\* the cue records and the labl records of the output
WrittenCueCount == littleEndianBytesToUInt32(Slice(Written(3), 8, 4))

WrittenCuePoint(k) == Slice(Written(3), 12 + SizeofCuePoint * (k - 1), SizeofCuePoint)

WrittenListBody == Slice(Written(4), 12, Len(Written(4)) - 12)

WrittenLabls == ChunksFrom(WrittenListBody, 0)

\* floor(t * sample-rate) for a record of the label file, the rate taken
\* from the fmt chunk of the output
ExpectedIndex(rec) ==
    (rec.halves * littleEndianBytesToUInt32(Slice(Written(1), 12, 4))) \div 2

\* a line of the label file that is a record within the cap on start times
Accepted(rec) == rec.form = "full" /\ rec.halves <= 2 * MaxStartTime

AllAccepted == \A k \in DOMAIN labelSource.records : Accepted(labelSource.records[k])

---------------------------------------------------------------------------
(* The claims.                                                            *)

\* C1: for a label file of n well-formed lines within the cap, in any line-terminator
\* style, a successful conversion writes exactly n cue records in file
\* order, and the k-th record's play-order-position and frame-offset both
\* equal floor(t_k * sample-rate).  The code breaks this for LF-only and
\* CR-only files of more than one line.
C1_SampleIndexMapping ==
    (Converted /\ AllAccepted) =>
        /\ Len(Written(3)) = 12 + SizeofCuePoint * Len(labelSource.records)
        /\ WrittenCueCount = Len(labelSource.records)
        /\ \A k \in 1..Len(labelSource.records) :
             /\ littleEndianBytesToUInt32(Slice(WrittenCuePoint(k), 4, 4))
                  = ExpectedIndex(labelSource.records[k])
             /\ littleEndianBytesToUInt32(Slice(WrittenCuePoint(k), 20, 4))
                  = ExpectedIndex(labelSource.records[k])

\* C2: once a label file of records is read to its end, the entries the parser
\* returned are those it returns for the same records written with any of
\* the line endings LF, CRLF and CR, with or without an ending after the
\* last record.  The code breaks this.
C2_LineEndingTolerance ==
    (labelFile.eof /\ AllAccepted) =>
        \A ending \in LineEndings, final \in BOOLEAN :
            \E inRegister \in BOOLEAN :
                readLabelFile(LabelText([records |-> labelSource.records,
                                         ending |-> ending, final |-> final]),
                              formatChunk, inRegister) = labelInfo

\* C3: after a successful conversion the second chunk of the output is a
\* data chunk of the input, with its length field, its payload and a zero
\* pad byte iff the payload is odd.  The code breaks this for an input that
\* ends inside its data chunk.
C3_DataPreserved ==
    Converted =>
        \E c \in InputChunkSet : c.chunkID = DATA /\ Written(2) = Image(c)

\* C4: after a successful conversion the length in the output's RIFF
\* header is the number of bytes written minus 8.
C4_LengthField ==
    Converted =>
        littleEndianBytesToUInt32(Slice(outputFile, 4, 4)) = Len(outputFile) - 8

\* C4's case: a conversion that wrote extra format bytes, an odd-sized data
\* chunk with its pad byte and a preserved chunk
C4_Witness ==
    /\ Converted
    /\ formatChunkExtraBytes.size % 2 = 1
    /\ dataChunkLocation.size % 2 = 1
    /\ otherChunkLocations # <<>>

\* C5: after a successful conversion the chunks written after the LIST
\* chunk are, in input order, the input's chunks other than fmt, data, cue
\* and LIST/adtl, each with its identifier, length field and payload.  The
\* code breaks this: it drops a last LIST chunk shorter than its type.
C5_OtherChunksPreserved ==
    Converted =>
        [k \in 1..(Len(chunkStarts) - 4) |-> Written(k + 4)]
          = [k \in 1..Len(SelectSeq(InputChunks, IsOther)) |->
                Image(SelectSeq(InputChunks, IsOther)[k])]

\* C6: after a successful conversion exactly one chunk of the output is a
\* cue chunk and exactly one a LIST/adtl chunk, they are the third and the
\* fourth and hold what the label file gave, and no byte range that was
\* copied from the input touches a cue chunk or a LIST/adtl chunk of it.
C6_OldAnnotationsReplaced ==
    Converted =>
        /\ { k \in DOMAIN chunkStarts : Slice(Written(k), 0, 4) = CUE_ } = {3}
        /\ { k \in DOMAIN chunkStarts :
               /\ Slice(Written(k), 0, 4) = LIST
               /\ Slice(Written(k), 8, 4) = ADTL } = {4}
        /\ Written(3) =
             CUE_
             \o uint32ToLittleEndianBytes(4 + SizeofCuePoint * labelInfo.count)
             \o uint32ToLittleEndianBytes(labelInfo.count)
             \o Concat([k \in 1..labelInfo.count |->
                            CuePoint(k - 1, LocationAt(labelInfo, k - 1))])
        /\ WrittenListBody =
             Concat([k \in 1..labelInfo.count |->
                        LabelChunk(k - 1, labelInfo)])
        /\ \A c \in InputChunkSet :
             (c.chunkID = CUE_ \/ IsAdtl(c)) =>
                 \A i \in DOMAIN copied :
                     ExtentOf(c) \cap (copied[i].startOffset ..
                                       copied[i].startOffset + copied[i].size - 1) = {}

\* C6's case: a first conversion of an input that held two cue chunks, one
\* of them before the fmt chunk, a LIST/adtl chunk and a chunk to preserve
C6_Witness ==
    /\ Converted
    /\ run = 1
    /\ Len(SelectSeq(InputChunks, LAMBDA c : c.chunkID = CUE_)) = 2
    /\ InputChunks[1].chunkID = CUE_
    /\ \E c \in InputChunkSet : IsAdtl(c)
    /\ \E c \in InputChunkSet : IsOther(c)

\* C7: after a successful conversion, for every i in 0..count-1 the cue-id
\* of the i-th cue record and the cue-id in the i-th labl record both equal
\* i + 1, and the cue-count field is the number of labl records.
C7_CueLabelCorrespondence ==
    Converted =>
        LET labls == WrittenLabls
        IN  /\ Len(Written(3)) = 12 + SizeofCuePoint * WrittenCueCount
            /\ Len(labls) = WrittenCueCount
            /\ \A i \in 0..(WrittenCueCount - 1) :
                 /\ littleEndianBytesToUInt32(Slice(WrittenCuePoint(i + 1), 0, 4))
                      = i + 1
                 /\ labls[i + 1].chunkID = LABL
                 /\ littleEndianBytesToUInt32(Slice(labls[i + 1].payload, 0, 4))
                      = i + 1

\* C7's case: a conversion that wrote more than one cue point
C7_Witness == Converted /\ WrittenCueCount = MaxRecords

\* C8: after a successful conversion the first chunk of the output is a
\* fmt chunk of the input, with its length field, its 16-byte descriptor
\* and its extra bytes, and the bytes written after the descriptor are as
\* many as the written length field minus 16 (and a pad byte if that is
\* odd).  The code breaks this for an input with a second fmt chunk.
C8_FormatPreserved ==
    Converted =>
        /\ \E c \in InputChunkSet : c.chunkID = FMT_ /\ Written(1) = Image(c)
        /\ Len(Written(1)) - SizeofFormatChunk
             = (littleEndianBytesToUInt32(Slice(Written(1), 4, 4)) - 16)
               + ((littleEndianBytesToUInt32(Slice(Written(1), 4, 4)) - 16) % 2)

\* the 0-based offsets of a byte sequence at which the identifier 'labl'
\* stands
LablOffsets(body) ==
    { p \in 0..(Len(body) - 4) : Slice(body, p, 4) = LABL }

\* C9: after a successful conversion every top-level chunk was begun at an
\* even offset of the output, and every labl record stands at an even
\* offset of the LIST body.
C9_ChunkAlignment ==
    Converted =>
        /\ \A k \in DOMAIN chunkStarts : chunkStarts[k] % 2 = 0
        /\ Cardinality(LablOffsets(WrittenListBody)) = labelInfo.count
        /\ \A p \in LablOffsets(WrittenListBody) : p % 2 = 0

\* C9's case: a conversion that copied a chunk of odd size and wrote a labl
\* record of odd length before another one
C9_Witness ==
    /\ Converted
    /\ \E i \in DOMAIN copied : copied[i].size % 2 = 1 /\ i < Len(chunkStarts)
    /\ labelInfo.count > 1
    /\ LengthAt(labelInfo, 0) % 2 = 1

\* C10: the conversion run on the output of a successful conversion, with
\* the same label file, succeeds, and its cue chunk and LIST/adtl chunk are
\* byte for byte those of the first run.  The code breaks this: the second
\* run rejects what the first wrote for an input with a second fmt chunk.
C10_Idempotence ==
    (run = 2 /\ pc = "done") =>
        /\ returnCode = 0
        /\ Written(3) = ChunkAt(firstRun.output, firstRun.chunkStarts, 3)
        /\ Written(4) = ChunkAt(firstRun.output, firstRun.chunkStarts, 4)

\* the stream ends inside a chunk: some chunk has fewer payload bytes than
\* its length field declares
Truncated == \E c \in InputChunkSet : Len(c.payload) < c.size

\* C11: a conversion of an input that ends inside a chunk returns a
\* non-zero status.  The code breaks this: neither the scanner's seeks nor
\* the copier notice the missing bytes.
C11_TruncatedInputFatal ==
    (pc = "done" /\ Truncated) => returnCode # 0

\* the lines of a label file that are records within the cap
AcceptedOnly(recs) == SelectSeq(recs, Accepted)

\* C12: once the label file is read to its end, the entries are exactly
\* those the parser returns for the same file with the malformed lines and
\* the lines over the cap deleted.  The code breaks this: a line that holds
\* a start time and nothing else takes the next line as its end and text.
C12_DroppedLines ==
    labelFile.eof =>
        \E inRegister \in BOOLEAN :
            labelInfo = readLabelFile(
                            LabelText([records |-> AcceptedOnly(labelSource.records),
                                       ending  |-> labelSource.ending,
                                       final   |-> labelSource.final]),
                            formatChunk, inRegister)

\* the conditions under which a conversion is to fail, read from the two
\* input files
BadHeader ==
    Slice(inputFile.bytes, 0, 4) # RIFF \/ Slice(inputFile.bytes, 8, 4) # WAVE

Compressed ==
    \E c \in InputChunkSet :
        /\ c.chunkID = FMT_
        /\ littleEndianBytesToUInt16(Slice(c.payload, 0, 2))
             \notin {WAVE_FORMAT_PCM, WAVE_FORMAT_IEEE_FLOAT}

NoFormatOrNoData ==
    \/ \A c \in InputChunkSet : c.chunkID # FMT_
    \/ \A c \in InputChunkSet : c.chunkID # DATA

TooManyOthers == Len(SelectSeq(InputChunks, IsOther)) > maxOtherChunks

\* the label file holds no record within the cap
NoValidEntry == AcceptedOnly(labelSource.records) = <<>>

FatalCondition ==
    BadHeader \/ Compressed \/ NoFormatOrNoData \/ TooManyOthers \/ NoValidEntry

\* C13: never are more than 256 other chunks recorded; a run that ends
\* with a non-zero status has written no byte; and a run ends with a
\* non-zero status exactly if the input lacks the RIFF or WAVE identifier,
\* a fmt chunk has a compression code other than 1 and 3, there is no fmt
\* chunk or no data chunk, there are more than 256 other chunks, or the
\* label file holds no valid record.  The code breaks the last: a line that
\* holds a start time and nothing else makes an entry out of the line after
\* it, be that line within the cap or not.
C13_FatalBeforeWriting ==
    /\ Len(otherChunkLocations) <= maxOtherChunks
    /\ returnCode # 0 => outputFile = <<>>
    /\ pc = "done" => (returnCode # 0 <=> FatalCondition)

\* C13's case: a run that failed at the 257th other chunk
C13_Witness ==
    /\ pc = "done"
    /\ returnCode # 0
    /\ TooManyOthers
    /\ Len(otherChunkLocations) = maxOtherChunks


\* C14: the output of a successful conversion is the RIFF/WAVE header, then
\* the fmt chunk, the data chunk, the cue chunk and the LIST/adtl chunk in
\* this order, then nothing but other chunks of the input, the k-th of them
\* the k-th other chunk the input held, wherever it stood in the input.
C14_FixedOutputOrder ==
    Converted =>
        LET others == SelectSeq(InputChunks, IsOther)
        IN  /\ Slice(outputFile, 0, 4) = RIFF
            /\ Slice(outputFile, 8, 4) = WAVE
            /\ Len(chunkStarts) >= 4
            /\ chunkStarts[1] = 12
            /\ Slice(Written(1), 0, 4) = FMT_
            /\ Slice(Written(2), 0, 4) = DATA
            /\ Slice(Written(3), 0, 4) = CUE_
            /\ Slice(Written(4), 0, 4) = LIST
            /\ Slice(Written(4), 8, 4) = ADTL
            /\ Len(chunkStarts) - 4 <= Len(others)
            /\ \A k \in 5..Len(chunkStarts) :
                 Slice(Written(k), 0, 8)
                   = others[k - 4].chunkID
                     \o uint32ToLittleEndianBytes(others[k - 4].size)

\* C14's case: a first conversion of an input whose first chunk, before the
\* fmt and the data chunk, is a chunk to preserve
C14_Witness ==
    /\ Converted
    /\ run = 1
    /\ IsOther(InputChunks[1])
    /\ Len(chunkStarts) >= 5


\* C15: a step in which the copier is called leaves the input stream at the
\* position it had before the step.  The code breaks this: only the error
\* returns of the copier seek back, and after a copy without error the
\* stream stands behind the bytes copied.
C15_CopierRestoresCursor ==
    [][Len(copied') > Len(copied) => inputFile'.pos = inputFile.pos]_vars


\* the records of the label file that are within the cap, and so to be stored
ValidLines == Len(AcceptedOnly(labelSource.records))

\* the labl record the spec lays out for entry i (from 0) with a given text
ExpectedLabl(i, text) ==
    <<108, 97, 98, 108>>
    \o uint32ToLittleEndianBytes(4 + (Len(text) + 1))
    \o uint32ToLittleEndianBytes(i + 1)
    \o text
    \o <<0>>
    \o (IF (Len(text) + 1) % 2 = 1 THEN <<0>> ELSE <<>>)

\* the records of all entries of labelInfo, one after another
ExpectedListBody ==
    Concat([k \in 1..labelInfo.count |->
               ExpectedLabl(k - 1,
                   CString([j \in 1..LabelSize |->
                               LabelByteAt(labelInfo,
                                           LabelSize * (k - 1) + j - 1)]))])

\* C16: after a successful conversion the body of the LIST chunk written is,
\* for each entry i with a text of L bytes, 'labl', the size 4 + (L + 1),
\* the cue-id i + 1, the L bytes of the text, one zero, and one more zero
\* iff L + 1 is odd; listChunkSize is the length of these records, and the
\* LIST chunk's length field is 4 more.  The code breaks this for a label
\* file of more than 500 records: the store past the arrays overwrites
\* labelLengths[0], and the first record is written with that length.
C16_LablRecordLayout ==
    Converted =>
        /\ WrittenListBody = ExpectedListBody
        /\ listChunkSize = Len(ExpectedListBody)
        /\ littleEndianBytesToUInt32(Slice(Written(4), 4, 4))
             = 4 + Len(ExpectedListBody)

\* C17: labelInfo never holds more than 500 entries, and a run on a label
\* file of more than 500 valid lines ends with a non-zero status.  The
\* code breaks this: nothing compares labelInfo.count with 500, the 501st
\* entry is stored past the end of the arrays, over labels[0],
\* labelLengths[0] and count, and the run goes on to status 0.
C17_LabelCapacity ==
    /\ labelInfo.count <= MaxLabels
    /\ Len(labelInfo.locations) <= MaxLabels
    /\ (pc = "done" /\ ValidLines > MaxLabels) => returnCode # 0


\* C18: when a conversion has ended, with either status, every stream that
\* was opened is closed and every block that was allocated is freed, none
\* of them twice.  The code breaks this: each fmt chunk of the input gets a
\* new block, and only the last of them is freed.
C18_ResourcesReleased ==
    /\ \A b \in DOMAIN allocated : allocated[b] >= 0
    /\ pc = "done" =>
          /\ openStreams = {}
          /\ \A b \in DOMAIN allocated : allocated[b] = 0


\* C19: the loop of readLabelFile is never stopped short, and every
\* iteration of it, in either build, leaves the label file at its end or
\* further on than it was: on a file of finitely many bytes the loop ends,
\* and it ends with the end-of-file condition set.  The code breaks this
\* for a line whose text is of 500 bytes or more: the text is stored past
\* the end of labelString, and a build can be killed there.
C19_ParserTerminates ==
    /\ pc # "killed"
    /\ (pc = "readLabels" /\ ~labelFile.eof) =>
          \A inRegister \in BOOLEAN :
            LET r == ReadLabelStep(labelFile, labelInfo, formatChunk,
                                   inRegister)
            IN  r.f.eof \/ r.f.pos > labelFile.pos

\* C19 as the run shows it: whenever the label file is being read, the loop
\* ends at some later time with the end-of-file condition set.
C19_LoopEnds ==
    (pc = "readLabels") ~> (pc = "readLabels" /\ labelFile.eof)

\* C19 checked apart from the texts that labelString cannot hold: on every
\* file of up to MaxBytes bytes, whatever they are, the loop ends with the
\* end-of-file condition set.
C19_EndsWhenTextsFit ==
    (pc = "readLabels" /\ Len(labelFile.bytes) <= MaxBytes)
        ~> (pc = "readLabels" /\ labelFile.eof)

============================================================================
